---------------------------- MODULE Spec2Model ----------------------------
(***************************************************************************)
(* Model of explainify-api/app/main.py: the POST /explain handler.         *)
(*                                                                         *)
(* Python strings that the handler inspects character by character (the    *)
(* request text, the requested level, the completion text) are sequences   *)
(* of one-character strings, so that strip(), upper(), lower(),            *)
(* startswith(), split() and replace() are computed, not assumed.          *)
(* Strings that are only passed along or compared whole (HTTP details,     *)
(* the level instructions, API keys, exception names) are TLA+ strings.    *)
(* Optional[T] is a sequence of length 0 (None) or 1 (a value).            *)
(***************************************************************************)
EXTENDS Integers, Sequences, FiniteSets, TLC

(***************************************************************************)
(* Bounds of the model.                                                    *)
(***************************************************************************)
\* Largest number of lines of a "\n"-separated completion text in the
\* parser's specification, SpecParse.
MaxLines == 4

\* Largest number of lines of a completion text in the specification of the
\* whole handler, Spec (with any of the terminators).
MaxRespLines == 2

(***************************************************************************)
(* Optional values.                                                        *)
(***************************************************************************)
None == <<>>

Some(v) == <<v>>

(***************************************************************************)
(* str methods used by the handler.                                        *)
(***************************************************************************)
\* Characters str.strip() removes, among those the texts here are made of.
Whitespace == {" ", "\t", "\n", "\r", "\f"}

LowerLetters ==
  <<"a", "b", "c", "d", "e", "f", "g", "h", "i", "j", "k", "l", "m",
    "n", "o", "p", "q", "r", "s", "t", "u", "v", "w", "x", "y", "z">>

UpperLetters ==
  <<"A", "B", "C", "D", "E", "F", "G", "H", "I", "J", "K", "L", "M",
    "N", "O", "P", "Q", "R", "S", "T", "U", "V", "W", "X", "Y", "Z">>

UpperChar(c) ==
  IF \E i \in 1..Len(LowerLetters) : LowerLetters[i] = c
  THEN UpperLetters[CHOOSE i \in 1..Len(LowerLetters) : LowerLetters[i] = c]
  ELSE c

LowerChar(c) ==
  IF \E i \in 1..Len(UpperLetters) : UpperLetters[i] = c
  THEN LowerLetters[CHOOSE i \in 1..Len(UpperLetters) : UpperLetters[i] = c]
  ELSE c

\* s.upper()
Upper(s) == [i \in 1..Len(s) |-> UpperChar(s[i])]

\* s.lower()
Lower(s) == [i \in 1..Len(s) |-> LowerChar(s[i])]

SetMin(S) == CHOOSE x \in S : \A y \in S : x <= y

SetMax(S) == CHOOSE x \in S : \A y \in S : x >= y

\* s.strip()
Strip(s) ==
  LET keep == {i \in 1..Len(s) : s[i] \notin Whitespace}
  IN  IF keep = {} THEN <<>> ELSE SubSeq(s, SetMin(keep), SetMax(keep))

\* s.startswith(p)
StartsWith(s, p) == Len(s) >= Len(p) /\ SubSeq(s, 1, Len(p)) = p

\* s.replace(c, "") for a one-character c
RECURSIVE RemoveChar(_, _)
RemoveChar(s, c) ==
  IF s = <<>> THEN <<>>
  ELSE IF Head(s) = c THEN RemoveChar(Tail(s), c)
       ELSE <<Head(s)>> \o RemoveChar(Tail(s), c)

\* s.split(sep) for a one-character sep: always at least one piece.
RECURSIVE Split(_, _)
Split(s, sep) ==
  LET at == {i \in 1..Len(s) : s[i] = sep}
  IN  IF at = {} THEN <<s>>
      ELSE <<SubSeq(s, 1, SetMin(at) - 1)>>
             \o Split(SubSeq(s, SetMin(at) + 1, Len(s)), sep)

\* s[1:]
DropFirst(s) == SubSeq(s, 2, Len(s))

(***************************************************************************)
(* Module-level configuration and constants of main.py.                    *)
(***************************************************************************)
beginner == <<"b", "e", "g", "i", "n", "n", "e", "r">>

intermediate == <<"i", "n", "t", "e", "r", "m", "e", "d", "i", "a", "t", "e">>

advanced == <<"a", "d", "v", "a", "n", "c", "e", "d">>

VALID_LEVELS == {beginner, intermediate, advanced}

\* The values os.getenv("INTERNAL_API_KEY") can give: unset, or a secret.
ServerKeys == {None, Some("k1")}

level_instructions(lv) ==
  CASE lv = beginner ->
         "Explain this as if to a smart 12-year-old. Use simple language and short sentences."
    [] lv = intermediate ->
         "Explain this to a college student. Be structured, clear, and reduce jargon."
    [] lv = advanced ->
         "Explain this to someone with strong domain familiarity. Use technical detail but stay concise."

\* Lines 83-95 (the en dash of line 87 is written as a hyphen).
system_prompt ==
  "You are an expert explanation engine.\nFollow this structure strictly:\n\nSUMMARY:\nA 2-3 sentence summary.\n\nEXPLANATION:\nA deeper explanation adapted to the requested complexity level.\n\nKEY POINTS:\n- bullet 1\n- bullet 2\n- bullet 3\n\nBe accurate and avoid hallucinations."

user_prompt_stripped(lv, text) ==
  <<level_instructions(lv), "\n\n", "Text:\n", Strip(text), "\n\n",
    "Return EXACTLY using the structure provided.">>

\* The f-string of lines 97-101, as the sequence of its parts.
user_prompt(lv, text) ==
  <<level_instructions(lv), "\n\n", "Text:\n", text, "\n\n",
    "Return EXACTLY using the structure provided.">>

LABEL_SUMMARY == <<"S", "U", "M", "M", "A", "R", "Y">>

LABEL_EXPLANATION == <<"E", "X", "P", "L", "A", "N", "A", "T", "I", "O", "N">>

LABEL_KEY_POINTS == <<"K", "E", "Y", " ", "P", "O", "I", "N", "T", "S">>

SUMMARY_UNAVAILABLE ==
  <<"S", "u", "m", "m", "a", "r", "y", " ",
    "u", "n", "a", "v", "a", "i", "l", "a", "b", "l", "e", ".">>

EXPLANATION_UNAVAILABLE ==
  <<"E", "x", "p", "l", "a", "n", "a", "t", "i", "o", "n", " ",
    "u", "n", "a", "v", "a", "i", "l", "a", "b", "l", "e", ".">>

NO_KEY_POINTS ==
  <<"N", "o", " ", "k", "e", "y", " ", "p", "o", "i", "n", "t", "s", " ",
    "a", "v", "a", "i", "l", "a", "b", "l", "e", ".">>

(***************************************************************************)
(* Outcomes of one call of explain: an exception raised or the response.   *)
(***************************************************************************)
NoOutcome == [kind |-> "none"]

\* detail is the sequence of the parts of the detail string.
HTTPException(status_code, detail) ==
  [kind |-> "HTTPException", status_code |-> status_code, detail |-> detail]

\* completion.choices[0] on an empty list, raised outside the try block.
IndexError == [kind |-> "IndexError"]

ExplainResponse(lv, summary, explanation, key_points) ==
  [kind |-> "ExplainResponse", level |-> lv, summary |-> summary,
   explanation |-> explanation, key_points |-> key_points]

\* class ExplainRequest: level defaults to "intermediate" when omitted.
ExplainRequest(text, levelOpt) ==
  [text |-> text,
   level |-> IF levelOpt = None THEN intermediate ELSE levelOpt[1]]

(***************************************************************************)
(* explain, lines 52-65: the checks made before the completion call.       *)
(***************************************************************************)
verify_api_key_absent_ok(internal_api_key, x_api_key) ==
  IF internal_api_key = None \/ x_api_key = None THEN NoOutcome
  ELSE IF x_api_key # internal_api_key
       THEN HTTPException(401, <<"Invalid or missing API key">>)
       ELSE NoOutcome

\* verify_api_key: the exception it raises, or NoOutcome when it returns.
verify_api_key(internal_api_key, x_api_key) ==
  IF internal_api_key = None THEN NoOutcome
  ELSE IF x_api_key # internal_api_key
       THEN HTTPException(401, <<"Invalid or missing API key">>)
       ELSE NoOutcome

TextIsBlankUnstripped(text) == text = <<>>

\* not req.text.strip()
TextIsBlank(text) == Strip(text) = <<>>

NormalizeLevelKeepCase(lv) == lv

\* req.level.lower()
NormalizeLevel(lv) == Lower(lv)

ResolveLevelLenient(lv) ==
  IF NormalizeLevel(lv) \in VALID_LEVELS THEN Some(NormalizeLevel(lv))
  ELSE Some(intermediate)

\* Lines 60-65: the validated level, or None when the 400 is raised.
ResolveLevel(lv) ==
  IF NormalizeLevel(lv) \in VALID_LEVELS THEN Some(NormalizeLevel(lv))
  ELSE None

ValidateLevelFirst(internal_api_key, r, x_api_key) ==
  IF verify_api_key(internal_api_key, x_api_key) # NoOutcome
  THEN verify_api_key(internal_api_key, x_api_key)
  ELSE IF ResolveLevel(r.level) = None
       THEN HTTPException(400,
              <<"Invalid level. Choose: beginner, intermediate, or advanced.">>)
       ELSE IF TextIsBlank(r.text)
            THEN HTTPException(400, <<"Text cannot be empty.">>)
            ELSE NoOutcome

\* Lines 52-65 in order: the exception raised, or NoOutcome.
Validate(internal_api_key, r, x_api_key) ==
  IF verify_api_key(internal_api_key, x_api_key) # NoOutcome
  THEN verify_api_key(internal_api_key, x_api_key)
  ELSE IF TextIsBlank(r.text)
       THEN HTTPException(400, <<"Text cannot be empty.">>)
       ELSE IF ResolveLevel(r.level) = None
            THEN HTTPException(400,
                   <<"Invalid level. Choose: beginner, intermediate, or advanced.">>)
            ELSE NoOutcome

\* Lines 107-110: the messages sent to the completion service.
Messages(lv, text) ==
  <<[role |-> "system", content |-> <<system_prompt>>],
    [role |-> "user", content |-> user_prompt(lv, text)]>>

(***************************************************************************)
(* explain, lines 104-116: the completion call and what is read from it.   *)
(***************************************************************************)
UpstreamFailureNoCause(e) == HTTPException(500, <<"LLM call failed: ">>)

\* Line 114: the exception raised when the call raises e.
UpstreamFailure(e) == HTTPException(500, <<"LLM call failed: ", e>>)

\* A completion object: choices, each with message.content (Optional[str]).
Completion(contents) ==
  [choices |-> [i \in 1..Len(contents) |-> [message |-> [content |-> contents[i]]]]]

\* Line 116: completion.choices[0].message.content or ""
ContentOf(completion) ==
  IF completion.choices[1].message.content = None THEN <<>>
  ELSE completion.choices[1].message.content[1]

\* Lines 119 and 123: the lines the loop iterates over.
LinesOf(content) == Split(RemoveChar(content, "\r"), "\n")

(***************************************************************************)
(* explain, lines 120-144: the line-by-line pass.                          *)
(***************************************************************************)
InitialCurrentSummary == Some("summary")

\* Line 121
InitialCurrent == None

\* Line 120
InitialSections == [summary |-> <<>>, explanation |-> <<>>, keypoints |-> <<>>]

LabelOfCaseSensitive(l) ==
  IF StartsWith(l, LABEL_SUMMARY) THEN Some("summary")
  ELSE IF StartsWith(l, LABEL_EXPLANATION) THEN Some("explanation")
  ELSE IF StartsWith(l, LABEL_KEY_POINTS) THEN Some("keypoints")
  ELSE None

\* Lines 126-134: the section a label line selects, or None.
LabelOf(l) ==
  IF StartsWith(Upper(l), LABEL_SUMMARY) THEN Some("summary")
  ELSE IF StartsWith(Upper(l), LABEL_EXPLANATION) THEN Some("explanation")
  ELSE IF StartsWith(Upper(l), LABEL_KEY_POINTS) THEN Some("keypoints")
  ELSE None

AppendLineNoSpace(acc, l) == acc \o l

\* Lines 138 and 141: acc += l + " "
AppendLine(acc, l) == acc \o l \o <<" ">>

KeypointEntryUnstripped(l) == DropFirst(l)

\* Line 144: l[1:].strip()
KeypointEntry(l) == Strip(DropFirst(l))

AccumulateElseKeypoints(cur, sec, l) ==
  IF cur = Some("summary")
  THEN IF l # <<>>
       THEN [sec EXCEPT !.summary = AppendLine(sec.summary, l)]
       ELSE sec
  ELSE IF cur = Some("explanation")
       THEN IF l # <<>>
            THEN [sec EXCEPT !.explanation = AppendLine(sec.explanation, l)]
            ELSE sec
       ELSE IF StartsWith(l, <<"-">>)
            THEN [sec EXCEPT !.keypoints = Append(sec.keypoints, KeypointEntry(l))]
            ELSE sec

\* Lines 136-144: the sections after a non-label line l read in state cur.
Accumulate(cur, sec, l) ==
  IF cur = Some("summary")
  THEN IF l # <<>>
       THEN [sec EXCEPT !.summary = AppendLine(sec.summary, l)]
       ELSE sec
  ELSE IF cur = Some("explanation")
       THEN IF l # <<>>
            THEN [sec EXCEPT !.explanation = AppendLine(sec.explanation, l)]
            ELSE sec
       ELSE IF cur = Some("keypoints")
            THEN IF StartsWith(l, <<"-">>)
                 THEN [sec EXCEPT !.keypoints = Append(sec.keypoints, KeypointEntry(l))]
                 ELSE sec
            ELSE sec

LoopBodyClearing(cur, sec, line) ==
  IF LabelOf(Strip(line)) # None
  THEN [current |-> LabelOf(Strip(line)),
        sections |-> [sec EXCEPT ![LabelOf(Strip(line))[1]] = <<>>]]
  ELSE [current |-> cur, sections |-> Accumulate(cur, sec, Strip(line))]

\* One iteration of the loop of lines 123-144 on `line`.
LoopBody(cur, sec, line) ==
  IF LabelOf(Strip(line)) # None
  THEN [current |-> LabelOf(Strip(line)), sections |-> sec]
  ELSE [current |-> cur, sections |-> Accumulate(cur, sec, Strip(line))]

(***************************************************************************)
(* explain, lines 146-162: fallbacks and the response.                     *)
(***************************************************************************)
SummaryFallbackMissing(summary) == summary

\* Lines 147-148
SummaryFallback(summary) ==
  IF Strip(summary) = <<>> THEN SUMMARY_UNAVAILABLE ELSE summary

\* Lines 150-151
ExplanationFallback(explanation) ==
  IF Strip(explanation) = <<>> THEN EXPLANATION_UNAVAILABLE ELSE explanation

\* Lines 153-154
KeypointsFallback(keypoints) ==
  IF keypoints = <<>> THEN <<NO_KEY_POINTS>> ELSE keypoints

ApplyFallbacksFromExplanation(sec) ==
  [summary |-> IF Strip(sec.summary) # <<>> THEN sec.summary
               ELSE IF Strip(sec.explanation) # <<>>
                    THEN SubSeq(sec.explanation, 1, 1) \o <<".", ".", ".">>
                    ELSE SUMMARY_UNAVAILABLE,
   explanation |-> ExplanationFallback(sec.explanation),
   keypoints |-> KeypointsFallback(sec.keypoints)]

\* Lines 146-154: `sections` after the fallbacks.
ApplyFallbacks(sec) ==
  [summary |-> SummaryFallback(sec.summary),
   explanation |-> ExplanationFallback(sec.explanation),
   keypoints |-> KeypointsFallback(sec.keypoints)]

\* Lines 157-162: the response built from `sections`.
FinalResponse(lv, sec) ==
  ExplainResponse(lv, Strip(sec.summary), Strip(sec.explanation), sec.keypoints)

ReturnOutcomeStrict(lv, sec) ==
  IF Strip(sec.summary) = <<>> \/ Strip(sec.explanation) = <<>> \/ sec.keypoints = <<>>
  THEN HTTPException(500, <<"LLM call failed: ", "unparseable completion">>)
  ELSE FinalResponse(lv, sec)

\* Lines 146-162: what the handler returns once the loop has left `sec`.
ReturnOutcome(lv, sec) == FinalResponse(lv, ApplyFallbacks(sec))

\* Lines 123-144: `sections` once the loop has read the lines ls from the
\* state cur with the accumulators sec.
RECURSIVE Loop(_, _, _)
Loop(cur, sec, ls) ==
  IF ls = <<>> THEN sec
  ELSE Loop(LoopBody(cur, sec, Head(ls)).current,
            LoopBody(cur, sec, Head(ls)).sections,
            Tail(ls))

\* Lines 119-162 as a function: the response for the level lv and the
\* completion text content.
Parse(lv, content) ==
  ReturnOutcome(lv, Loop(InitialCurrent, InitialSections, LinesOf(content)))

\* Lines 49-162 as a function: what explain raises or returns for the body
\* (text, levelOpt) and the header under the configured key, when the
\* completion call raised e (Some) or returned c (Some).
HandledAlone(internal_api_key, text, levelOpt, header, e, c) ==
  IF Validate(internal_api_key, ExplainRequest(text, levelOpt), header)
       # NoOutcome
  THEN Validate(internal_api_key, ExplainRequest(text, levelOpt), header)
  ELSE IF e # None THEN UpstreamFailure(e[1])
       ELSE IF c[1].choices = <<>> THEN IndexError
            ELSE Parse(ResolveLevel(ExplainRequest(text, levelOpt).level)[1],
                       ContentOf(c[1]))

(***************************************************************************)
(* Inputs: the requests clients send and what the completion service can   *)
(* answer.                                                                 *)
(***************************************************************************)
\* Request texts: empty, whitespace only, and one with content.
Texts == {<<>>, <<" ", "\t">>, <<" ", "A", "b", " ">>}

\* Requested levels: omitted, valid in several cases, unrecognized, empty.
Levels ==
  {None,
   Some(<<"B", "E", "G", "I", "N", "N", "E", "R">>),
   Some(<<"A", "d", "v", "a", "n", "c", "e", "d">>),
   Some(<<"e", "x", "p", "e", "r", "t">>),
   Some(<<>>)}

\* x-api-key headers: absent, the configured secret, another value.
Headers == {None, Some("k1"), Some("k2")}

\* Exceptions the completion call can raise.
UpstreamErrors == {"APIConnectionError", "RateLimitError"}

\* The lines completion texts are made of.
LinePieces ==
  {<<"S", "U", "M", "M", "A", "R", "Y", ":">>,
   <<"E", "x", "p", "l", "a", "n", "a", "t", "i", "o", "n", ":", " ", "b">>,
   <<"k", "e", "y", " ", "p", "o", "i", "n", "t", "s">>,
   <<"-", " ", "a">>,
   <<"-", "b", " ">>,
   <<" ", "S", "U", "M">>,
   <<"M", "A", "R", "Y">>,
   <<" ">>}

\* What separates the lines of one completion text.
Terminators == {<<"\n">>, <<"\r", "\n">>, <<"\r">>}

RECURSIVE Join(_, _)
Join(ls, sep) ==
  IF ls = <<>> THEN <<>>
  ELSE IF Len(ls) = 1 THEN ls[1]
       ELSE ls[1] \o sep \o Join(Tail(ls), sep)

LineSeqs(maxLines) == UNION {[1..n -> LinePieces] : n \in 0..maxLines}

\* The completion texts of up to maxLines lines, one terminator throughout.
RawTexts(maxLines) ==
  {Join(ls, t) : ls \in LineSeqs(maxLines), t \in Terminators}

\* What the service can return: no choice, a null content, or a text.
Completions ==
  {Completion(<<>>), Completion(<<None>>)}
    \cup {Completion(<<Some(raw)>>) : raw \in RawTexts(MaxRespLines)}

\* The completions with a choice that the parser's specification starts
\* from: those of Spec, and the longer texts whose lines end in "\n".
ParseCompletions ==
  {Completion(<<None>>)}
    \cup {Completion(<<Some(raw)>>) : raw \in RawTexts(MaxRespLines)}
    \cup {Completion(<<Some(Join(ls, <<"\n">>))>>) : ls \in LineSeqs(MaxLines)}

(***************************************************************************)
(* State.                                                                  *)
(***************************************************************************)
VARIABLES
  INTERNAL_API_KEY, \* line 12: the configured secret, None in dev mode
  pc,               \* where the handler is: idle, call, parse, done
  body,             \* the request body received: text, and level if given
  req,              \* the ExplainRequest built from the body
  x_api_key,        \* the header of the request being handled
  level,            \* local `level` once validated
  messages,         \* the messages passed to the completion service
  calls,            \* completion-service invocations made for this request
  completion,       \* what the completion service returned, if it did
  exc,              \* local `e` of line 113: what the call raised, if it did
  lines,            \* content.split("\n") of line 123
  idx,              \* position of the loop of line 123 in lines
  current,          \* local `current`
  sections,         \* local `sections`
  read,             \* history: the lines the loop has consumed, each with
                    \* the value of `current` when it was read
  outcome,          \* the exception raised or the response returned
  frames            \* the locals of the calls of explain that the workers
                    \* of the thread pool run side by side

vars ==
  <<INTERNAL_API_KEY, pc, body, req, x_api_key, level, messages, calls,
    completion, exc, lines, idx, current, sections, read, outcome, frames>>

\* A request body: the text, and the level when the client gives one.
Body(text, levelOpt) == [text |-> text, level |-> levelOpt]

\* The workers of the thread pool that run explain, a plain `def`.
Workers == {"w1", "w2"}

\* The locals of a call of explain that has not begun.
IdleFrame ==
  [pc |-> "idle", body |-> Body(<<>>, None),
   req |-> ExplainRequest(<<>>, None), x_api_key |-> None, level |-> <<>>,
   messages |-> None, calls |-> 0, completion |-> None, exc |-> None,
   lines |-> <<>>, idx |-> 1, current |-> InitialCurrent,
   sections |-> InitialSections, outcome |-> NoOutcome]

\* The handler's locals when no request is being handled.
Idle ==
  /\ pc = "idle"
  /\ body = Body(<<>>, None)
  /\ req = ExplainRequest(<<>>, None)
  /\ x_api_key = None
  /\ level = <<>>
  /\ messages = None
  /\ calls = 0
  /\ completion = None
  /\ exc = None
  /\ lines = <<>>
  /\ idx = 1
  /\ current = InitialCurrent
  /\ sections = InitialSections
  /\ read = <<>>
  /\ outcome = NoOutcome

Init ==
  /\ INTERNAL_API_KEY \in ServerKeys
  /\ Idle
  /\ frames = [w \in Workers |-> IdleFrame]

(***************************************************************************)
(* Actions.                                                                *)
(***************************************************************************)
\* A request arrives: lines 50-101, up to the completion call.
Explain(text, levelOpt, header) ==
  /\ pc = "idle"
  /\ body' = Body(text, levelOpt)
  /\ req' = ExplainRequest(text, levelOpt)
  /\ x_api_key' = header
  /\ IF Validate(INTERNAL_API_KEY, req', header) # NoOutcome
     THEN /\ outcome' = Validate(INTERNAL_API_KEY, req', header)
          /\ pc' = "done"
          /\ UNCHANGED <<level, messages>>
     ELSE /\ level' = ResolveLevel(req'.level)[1]
          /\ messages' = Some(Messages(level', req'.text))
          /\ pc' = "call"
          /\ UNCHANGED outcome
  /\ UNCHANGED <<frames, INTERNAL_API_KEY, calls, completion, exc, lines, idx,
                 current, sections, read>>

\* The completion call raises: lines 113-114.
CallRaises(e) ==
  /\ pc = "call"
  /\ calls' = calls + 1
  /\ exc' = Some(e)
  /\ outcome' = UpstreamFailure(e)
  /\ pc' = "done"
  /\ UNCHANGED <<frames, INTERNAL_API_KEY, body, req, x_api_key, level, messages,
                 completion, lines, idx, current, sections, read>>

\* The completion call returns c: lines 105-121.
CallReturns(c) ==
  /\ pc = "call"
  /\ calls' = calls + 1
  /\ completion' = Some(c)
  /\ IF c.choices = <<>>
     THEN /\ outcome' = IndexError
          /\ pc' = "done"
          /\ UNCHANGED <<lines, idx, current, sections>>
     ELSE /\ lines' = LinesOf(ContentOf(c))
          /\ idx' = 1
          /\ current' = InitialCurrent
          /\ sections' = InitialSections
          /\ pc' = "parse"
          /\ UNCHANGED outcome
  /\ UNCHANGED <<frames, INTERNAL_API_KEY, body, req, x_api_key, level, messages, exc,
                 read>>

\* One iteration of the loop of lines 123-144.
ParseLine ==
  /\ pc = "parse"
  /\ idx <= Len(lines)
  /\ current' = LoopBody(current, sections, lines[idx]).current
  /\ sections' = LoopBody(current, sections, lines[idx]).sections
  /\ read' = Append(read, [current |-> current, line |-> lines[idx]])
  /\ idx' = idx + 1
  /\ UNCHANGED <<frames, INTERNAL_API_KEY, pc, body, req, x_api_key, level, messages,
                 calls, completion, exc, lines, outcome>>

\* The loop is over: lines 146-162.
Return ==
  /\ pc = "parse"
  /\ idx > Len(lines)
  /\ sections' = ApplyFallbacks(sections)
  /\ outcome' = ReturnOutcome(level, sections)
  /\ pc' = "done"
  /\ UNCHANGED <<frames, INTERNAL_API_KEY, body, req, x_api_key, level, messages, calls,
                 completion, exc, lines, idx, current, read>>

\* The handler is free for the next request; nothing of this one is kept.
NextRequest ==
  /\ pc = "done"
  /\ pc' = "idle"
  /\ body' = Body(<<>>, None)
  /\ req' = ExplainRequest(<<>>, None)
  /\ x_api_key' = None
  /\ level' = <<>>
  /\ messages' = None
  /\ calls' = 0
  /\ completion' = None
  /\ exc' = None
  /\ lines' = <<>>
  /\ idx' = 1
  /\ current' = InitialCurrent
  /\ sections' = InitialSections
  /\ read' = <<>>
  /\ outcome' = NoOutcome
  /\ UNCHANGED <<frames, INTERNAL_API_KEY>>

Next ==
  \/ \E text \in Texts, levelOpt \in Levels, header \in Headers :
       Explain(text, levelOpt, header)
  \/ \E e \in UpstreamErrors : CallRaises(e)
  \/ \E c \in Completions : CallReturns(c)
  \/ ParseLine
  \/ Return
  \/ NextRequest

Spec == Init /\ [][Next]_vars

(***************************************************************************)
(* The parser alone: the handler right after line 121, in dev mode, for a   *)
(* valid request and a completion with a choice, followed by the loop and  *)
(* the return.  The longer completion texts come with the default level,   *)
(* the completions of Spec with every valid level.                         *)
(***************************************************************************)
InitParse ==
  /\ INTERNAL_API_KEY = None
  /\ x_api_key = None
  /\ \E levelOpt \in Levels, c \in ParseCompletions :
       /\ levelOpt = None \/ c \in Completions
       /\ body = Body(<<" ", "A", "b", " ">>, levelOpt)
       /\ req = ExplainRequest(body.text, body.level)
       /\ Validate(INTERNAL_API_KEY, req, x_api_key) = NoOutcome
       /\ level = ResolveLevel(req.level)[1]
       /\ messages = Some(Messages(level, req.text))
       /\ completion = Some(c)
       /\ lines = LinesOf(ContentOf(c))
  /\ calls = 1
  /\ exc = None
  /\ idx = 1
  /\ current = InitialCurrent
  /\ sections = InitialSections
  /\ read = <<>>
  /\ outcome = NoOutcome
  /\ pc = "parse"
  /\ frames = [w \in Workers |-> IdleFrame]

NextParse ==
  \/ ParseLine
  \/ Return

SpecParse == InitParse /\ [][NextParse]_vars

(***************************************************************************)
(* Two workers of the thread pool, each running one call of explain, their *)
(* steps interleaved.  Every name that explain assigns is a local of the   *)
(* call; INTERNAL_API_KEY is shared and only read.                         *)
(***************************************************************************)
\* The requests and the answers of the completion service.
ConcRequests ==
  {[text |-> <<" ", "A", "b", " ">>,
    level |-> Some(<<"B", "E", "G", "I", "N", "N", "E", "R">>),
    header |-> Some("k1")],
   [text |-> <<" ", "A", "b", " ">>, level |-> None, header |-> Some("k2")],
   [text |-> <<" ", "\t">>, level |-> Some(<<"e", "x", "p", "e", "r", "t">>),
    header |-> Some("k1")]}

ConcCompletions ==
  {Completion(<<>>),
   Completion(<<Some(<<"S", "U", "M", "M", "A", "R", "Y", ":", "\n", " ", "S", "U", "M", "\n", "k", "e", "y", " ", "p", "o", "i", "n", "t", "s", "\n", "-", " ", "a">>)>>),
   Completion(<<Some(<<"E", "x", "p", "l", "a", "n", "a", "t", "i", "o", "n", ":", " ", "b", "\n", "M", "A", "R", "Y", "\n", "S", "U", "M", "M", "A", "R", "Y", ":", "\n", "-", "b", " ">>)>>)}

\* Lines 50-101: the locals of a call at the completion call, or at the
\* exception raised before it.
Entered(internal_api_key, text, levelOpt, header) ==
  IF Validate(internal_api_key, ExplainRequest(text, levelOpt), header)
       # NoOutcome
  THEN [IdleFrame EXCEPT
          !.body = Body(text, levelOpt),
          !.req = ExplainRequest(text, levelOpt),
          !.x_api_key = header,
          !.outcome = Validate(internal_api_key,
                               ExplainRequest(text, levelOpt), header),
          !.pc = "done"]
  ELSE [IdleFrame EXCEPT
          !.body = Body(text, levelOpt),
          !.req = ExplainRequest(text, levelOpt),
          !.x_api_key = header,
          !.level = ResolveLevel(ExplainRequest(text, levelOpt).level)[1],
          !.messages =
            Some(Messages(ResolveLevel(ExplainRequest(text, levelOpt).level)[1],
                          text)),
          !.pc = "call"]

SectionsOfFirst(fs, w) == fs["w1"].sections

\* Line 120: `sections` is a local of the call that worker w runs.
SectionsOf(fs, w) == fs[w].sections

\* Worker w takes the request r: lines 50-101.
ExplainConc(w, r) ==
  /\ frames[w].pc = "idle"
  /\ frames' = [frames EXCEPT
                  ![w] = Entered(INTERNAL_API_KEY, r.text, r.level, r.header)]
  /\ UNCHANGED <<INTERNAL_API_KEY, pc, body, req, x_api_key, level, messages,
                 calls, completion, exc, lines, idx, current, sections, read,
                 outcome>>

\* The completion call of worker w raises e: lines 113-114.
CallRaisesConc(w, e) ==
  /\ frames[w].pc = "call"
  /\ frames' = [frames EXCEPT
                  ![w].calls = @ + 1,
                  ![w].exc = Some(e),
                  ![w].outcome = UpstreamFailure(e),
                  ![w].pc = "done"]
  /\ UNCHANGED <<INTERNAL_API_KEY, pc, body, req, x_api_key, level, messages,
                 calls, completion, exc, lines, idx, current, sections, read,
                 outcome>>

\* The completion call of worker w returns c: lines 105-121.
CallReturnsConc(w, c) ==
  /\ frames[w].pc = "call"
  /\ IF c.choices = <<>>
     THEN frames' = [frames EXCEPT
                       ![w].calls = @ + 1,
                       ![w].completion = Some(c),
                       ![w].outcome = IndexError,
                       ![w].pc = "done"]
     ELSE frames' = [frames EXCEPT
                       ![w].calls = @ + 1,
                       ![w].completion = Some(c),
                       ![w].lines = LinesOf(ContentOf(c)),
                       ![w].idx = 1,
                       ![w].current = InitialCurrent,
                       ![w].sections = InitialSections,
                       ![w].pc = "parse"]
  /\ UNCHANGED <<INTERNAL_API_KEY, pc, body, req, x_api_key, level, messages,
                 calls, completion, exc, lines, idx, current, sections, read,
                 outcome>>

\* Worker w runs one iteration of the loop of lines 123-144.
ParseLineConc(w) ==
  /\ frames[w].pc = "parse"
  /\ frames[w].idx <= Len(frames[w].lines)
  /\ frames' = [frames EXCEPT
                  ![w].current =
                    LoopBody(frames[w].current, SectionsOf(frames, w),
                             frames[w].lines[frames[w].idx]).current,
                  ![w].sections =
                    LoopBody(frames[w].current, SectionsOf(frames, w),
                             frames[w].lines[frames[w].idx]).sections,
                  ![w].idx = @ + 1]
  /\ UNCHANGED <<INTERNAL_API_KEY, pc, body, req, x_api_key, level, messages,
                 calls, completion, exc, lines, idx, current, sections, read,
                 outcome>>

\* The loop of worker w is over: lines 146-162.
ReturnConc(w) ==
  /\ frames[w].pc = "parse"
  /\ frames[w].idx > Len(frames[w].lines)
  /\ frames' = [frames EXCEPT
                  ![w].sections = ApplyFallbacks(SectionsOf(frames, w)),
                  ![w].outcome =
                    ReturnOutcome(frames[w].level, SectionsOf(frames, w)),
                  ![w].pc = "done"]
  /\ UNCHANGED <<INTERNAL_API_KEY, pc, body, req, x_api_key, level, messages,
                 calls, completion, exc, lines, idx, current, sections, read,
                 outcome>>

InitConc ==
  /\ INTERNAL_API_KEY \in ServerKeys
  /\ Idle
  /\ frames = [w \in Workers |-> IdleFrame]

NextConc ==
  \/ \E w \in Workers, r \in ConcRequests : ExplainConc(w, r)
  \/ \E w \in Workers, e \in UpstreamErrors : CallRaisesConc(w, e)
  \/ \E w \in Workers, c \in ConcCompletions : CallReturnsConc(w, c)
  \/ \E w \in Workers : ParseLineConc(w)
  \/ \E w \in Workers : ReturnConc(w)

SpecConc == InitConc /\ [][NextConc]_vars

(***************************************************************************)
(* Vocabulary of the properties.  These definitions say what a trimmed     *)
(* line, a label line or a joined paragraph is, without the handler's own  *)
(* operators.                                                              *)
(***************************************************************************)
IsBlank(s) == \A i \in 1..Len(s) : s[i] \in Whitespace

\* t is s without its leading and trailing whitespace.
IsTrimOf(t, s) ==
  \E a \in 1..(Len(s) + 1), b \in 0..Len(s) :
    /\ t = SubSeq(s, a, b)
    /\ \A k \in 1..Len(s) : (k < a \/ k > b) => s[k] \in Whitespace
    /\ t # <<>> => (t[1] \notin Whitespace /\ t[Len(t)] \notin Whitespace)

\* s starts with the label, letter case aside.
HasLabelPrefix(s, label) ==
  /\ Len(s) >= Len(label)
  /\ \A k \in 1..Len(label) : UpperChar(s[k]) = label[k]

\* The trimmed form of line starts with one of the three labels.
IsLabelLine(line) ==
  \E a \in 1..(Len(line) + 1) :
    /\ \A k \in 1..(a - 1) : line[k] \in Whitespace
    /\ \E label \in {LABEL_SUMMARY, LABEL_EXPLANATION, LABEL_KEY_POINTS} :
         HasLabelPrefix(SubSeq(line, a, Len(line)), label)

\* The trimmed form of line starts with a dash.
IsDashLine(line) ==
  \E a \in 1..Len(line) :
    /\ line[a] = "-"
    /\ \A k \in 1..(a - 1) : line[k] \in Whitespace

\* entry is line without its leading dash and the whitespace around.
IsDashEntryOf(entry, line) ==
  \E a \in 1..Len(line) :
    /\ line[a] = "-"
    /\ \A k \in 1..(a - 1) : line[k] \in Whitespace
    /\ IsTrimOf(entry, SubSeq(line, a + 1, Len(line)))

\* s without its leading and trailing whitespace.
TrimOf(s) ==
  CHOOSE t \in {SubSeq(s, a, b) : a \in 1..(Len(s) + 1), b \in 0..Len(s)} :
    IsTrimOf(t, s)

\* The trimmed lines of the entries, separated by single spaces.
JoinedBySpaces(entries) ==
  Join([i \in 1..Len(entries) |-> TrimOf(entries[i].line)], <<" ">>)

\* a and b are equal up to letter case.
EqualIgnoringCase(a, b) ==
  /\ Len(a) = Len(b)
  /\ \A k \in 1..Len(a) : UpperChar(a[k]) = UpperChar(b[k])

\* lv is beginner, intermediate or advanced up to letter case.
LevelRecognized(lv) == \E v \in VALID_LEVELS : EqualIgnoringCase(lv, v)

\* The level among beginner, intermediate, advanced that lv spells.
LevelSpelled(lv) == CHOOSE v \in VALID_LEVELS : EqualIgnoringCase(lv, v)

\* A secret is configured and the header presented is not that secret.
KeyRejected == INTERNAL_API_KEY # None /\ x_api_key # INTERNAL_API_KEY

\* The request ended with HTTPException(status_code).
Failed(status_code) ==
  /\ pc = "done"
  /\ outcome.kind = "HTTPException"
  /\ outcome.status_code = status_code

\* The handler returned a response.
Responded == pc = "done" /\ outcome.kind = "ExplainResponse"

\* The completion service returned a completion with a choice.
GotChoice == completion # None /\ completion[1].choices # <<>>

\* A line read in SUMMARY (EXPLANATION) state that is content of that
\* section: neither a label nor blank.
IsContentOfSummary(e) ==
  e.current = Some("summary") /\ ~IsLabelLine(e.line) /\ ~IsBlank(e.line)

IsContentOfExplanation(e) ==
  e.current = Some("explanation") /\ ~IsLabelLine(e.line) /\ ~IsBlank(e.line)

\* The dash-prefixed lines read in KEYPOINTS state.
IsDashLineOfKeypoints(e) == e.current = Some("keypoints") /\ IsDashLine(e.line)

\* The state the parser was in after reading the i-th line.
StateAfter(i) == IF i < Len(read) THEN read[i + 1].current ELSE current

(***************************************************************************)
(* Properties.                                                             *)
(***************************************************************************)
\* C1: whatever text the completion holds (empty, null, without labels,
\* with the labels in any order), the loop raises nothing and the handler
\* returns an ExplainResponse with a non-empty summary, a non-empty
\* explanation, at least one key point and a level among beginner,
\* intermediate, advanced.
C1_ParseTotal ==
  /\ pc = "parse" => outcome = NoOutcome
  /\ (pc = "done" /\ GotChoice) =>
       /\ outcome.kind = "ExplainResponse"
       /\ outcome.summary # <<>>
       /\ outcome.explanation # <<>>
       /\ Len(outcome.key_points) >= 1
       /\ outcome.level \in {beginner, intermediate, advanced}

\* C1 witness: a text with the three labels in reverse order was parsed and
\* answered.
C1_Witness ==
  /\ Responded
  /\ Len(read) = 3
  /\ HasLabelPrefix(Upper(read[1].line), LABEL_KEY_POINTS)
  /\ HasLabelPrefix(Upper(read[2].line), LABEL_EXPLANATION)
  /\ HasLabelPrefix(Upper(read[3].line), LABEL_SUMMARY)
  /\ outcome.summary # <<>>

C3_KeyPointsInOrder ==
  (Responded /\ SelectSeq(read, IsDashLineOfKeypoints) # <<>>) =>
    /\ Len(outcome.key_points) = Len(SelectSeq(read, IsDashLineOfKeypoints))
    /\ \A i \in 1..Len(outcome.key_points) :
         IsDashEntryOf(outcome.key_points[i],
                       SelectSeq(read, IsDashLineOfKeypoints)[i].line)

\* C3 witness: "-b " then a non-dash line then "- a" were read in KEYPOINTS
\* state and the response lists b before a.
C3_Witness ==
  /\ Responded
  /\ outcome.key_points = << <<"b">>, <<"a">> >>
  /\ \E i \in 1..Len(read) :
       /\ read[i].current = Some("keypoints")
       /\ ~IsDashLine(read[i].line)
       /\ ~IsLabelLine(read[i].line)
       /\ ~IsBlank(read[i].line)

\* C4: when a section (SUMMARY, EXPLANATION) collected at least one
\* non-blank line, its text in the response is the trimmed non-blank,
\* non-label lines read in that state, in the order read, joined by single
\* spaces, without leading or trailing whitespace; a blank line leaves the
\* parser state as it was.
C4_SectionsJoined ==
  /\ (Responded /\ SelectSeq(read, IsContentOfSummary) # <<>>) =>
       /\ outcome.summary = JoinedBySpaces(SelectSeq(read, IsContentOfSummary))
       /\ outcome.summary[1] \notin Whitespace
       /\ outcome.summary[Len(outcome.summary)] \notin Whitespace
  /\ (Responded /\ SelectSeq(read, IsContentOfExplanation) # <<>>) =>
       /\ outcome.explanation =
            JoinedBySpaces(SelectSeq(read, IsContentOfExplanation))
       /\ outcome.explanation[1] \notin Whitespace
       /\ outcome.explanation[Len(outcome.explanation)] \notin Whitespace
  /\ \A i \in 1..Len(read) :
       IsBlank(read[i].line) => StateAfter(i) = read[i].current

\* C4 witness: " SUM", a blank line and "MARY" were read in SUMMARY state
\* and the summary returned is "SUM MARY".
C4_Witness ==
  /\ Responded
  /\ outcome.summary = <<"S", "U", "M", " ", "M", "A", "R", "Y">>
  /\ \E i \in 1..Len(read) :
       read[i].current = Some("summary") /\ IsBlank(read[i].line)

\* C5: a request that ends in 401 or 400 never invoked the completion
\* service; in particular a request that is unauthorized, whose text is
\* whitespace only or whose level is unrecognized is over, failed, with no
\* call made, no messages built and nothing received.
C5_FailuresBeforeCall ==
  /\ (Failed(401) \/ Failed(400)) =>
       calls = 0 /\ messages = None /\ completion = None /\ exc = None
  /\ (pc # "idle" /\ (KeyRejected \/ IsBlank(req.text) \/ ~LevelRecognized(req.level))) =>
       /\ Failed(401) \/ Failed(400)
       /\ calls = 0

\* C5 witness: a request with a whitespace-only, non-empty text was rejected
\* with 400 and no call.
C5_Witness ==
  /\ Failed(400)
  /\ req.text # <<>>
  /\ IsBlank(req.text)
  /\ outcome.detail = <<"Text cannot be empty.">>
  /\ calls = 0

\* C6: when the completion call raises, the request ends with a 500 whose
\* detail carries what was raised, no response is returned and nothing was
\* parsed; the service is invoked at most once per request.
C6_UpstreamFailure ==
  /\ calls <= 1
  /\ exc # None =>
       /\ calls = 1
       /\ Failed(500)
       /\ outcome.detail = <<"LLM call failed: ", exc[1]>>
       /\ completion = None
       /\ sections = InitialSections
       /\ read = <<>>

\* C6 witness: the call raised RateLimitError and the request ended in 500.
C6_Witness ==
  /\ exc = Some("RateLimitError")
  /\ Failed(500)
  /\ calls = 1

\* C7: when the completion service returns a completion without choices, the
\* request ends with the same 500 as an upstream failure, its detail
\* starting with "LLM call failed: " and carrying the cause.
C7_MalformedIs500 ==
  (pc = "done" /\ completion # None /\ completion[1].choices = <<>>) =>
    /\ Failed(500)
    /\ Len(outcome.detail) = 2
    /\ outcome.detail[1] = "LLM call failed: "

\* C8: once the completion service has returned a completion with a choice,
\* the request is being parsed or has ended with a response, never with a
\* failure; a section without content only takes its fallback value.
C8_ParseNeverFails ==
  GotChoice =>
    /\ pc \in {"parse", "done"}
    /\ pc = "parse" => outcome = NoOutcome
    /\ pc = "done" =>
         /\ outcome.kind = "ExplainResponse"
         /\ SelectSeq(read, IsContentOfSummary) = <<>> =>
              outcome.summary = SUMMARY_UNAVAILABLE
         /\ SelectSeq(read, IsContentOfExplanation) = <<>> =>
              outcome.explanation = EXPLANATION_UNAVAILABLE
         /\ SelectSeq(read, IsDashLineOfKeypoints) = <<>> =>
              outcome.key_points = <<NO_KEY_POINTS>>

\* C8 witness: a text with an explanation but neither summary nor key points
\* was answered, the missing sections replaced by their fallbacks.
C8_Witness ==
  /\ Responded
  /\ GotChoice
  /\ SelectSeq(read, IsContentOfExplanation) # <<>>
  /\ outcome.summary = SUMMARY_UNAVAILABLE
  /\ outcome.key_points = <<NO_KEY_POINTS>>
  /\ outcome.explanation # EXPLANATION_UNAVAILABLE

\* C9: a level that spells beginner, intermediate or advanced in any letter
\* case passes validation; the instruction in the user prompt is the one of
\* its lower-case form and the response's level is that lower-case form; a
\* request without level is handled as "intermediate".
C9_LevelCaseInsensitive ==
  /\ (pc # "idle" /\ ~KeyRejected /\ ~IsBlank(req.text) /\ LevelRecognized(req.level)) =>
       /\ ~Failed(400)
       /\ level = LevelSpelled(req.level)
       /\ messages # None
       /\ messages[1][2].content[1] = level_instructions(LevelSpelled(req.level))
  /\ Responded =>
       /\ LevelRecognized(req.level)
       /\ outcome.level = LevelSpelled(req.level)
  /\ (pc # "idle" /\ body.level = None) => req.level = intermediate
  /\ (Responded /\ body.level = None) => outcome.level = intermediate

\* C9 witness: a request for level "BEGINNER" was answered with level
\* "beginner".
C9_Witness ==
  /\ Responded
  /\ body.level = Some(<<"B", "E", "G", "I", "N", "N", "E", "R">>)
  /\ outcome.level = beginner
  /\ messages[1][2].content[1] = level_instructions(beginner)

\* C10: a request whose level does not spell beginner, intermediate or
\* advanced is rejected without any call - with 400 whenever its key is
\* accepted, with the invalid-level detail when its text is not blank
\* either - and never answered; every response carries the level requested.
C10_StrictLevel ==
  /\ (pc # "idle" /\ ~LevelRecognized(req.level)) =>
       /\ pc = "done"
       /\ outcome.kind = "HTTPException"
       /\ calls = 0
       /\ ~KeyRejected => outcome.status_code = 400
       /\ (~KeyRejected /\ ~IsBlank(req.text)) =>
            outcome.detail =
              <<"Invalid level. Choose: beginner, intermediate, or advanced.">>
  /\ Responded => EqualIgnoringCase(outcome.level, req.level)

\* C10 witness: an authorized request with text and level "expert" was
\* rejected with the invalid-level 400.
C10_Witness ==
  /\ Failed(400)
  /\ req.level = <<"e", "x", "p", "e", "r", "t">>
  /\ ~IsBlank(req.text)
  /\ outcome.detail =
       <<"Invalid level. Choose: beginner, intermediate, or advanced.">>

\* C11: with a secret configured, the request ends in 401 exactly when its
\* x-api-key header is absent or is not the secret; with no secret
\* configured no request ends in 401, whatever its header.
C11_Authorization ==
  /\ (pc # "idle" /\ INTERNAL_API_KEY # None) =>
       (Failed(401) <=> (x_api_key = None \/ x_api_key[1] # INTERNAL_API_KEY[1]))
  /\ INTERNAL_API_KEY = None =>
       ~(outcome.kind = "HTTPException" /\ outcome.status_code = 401)

\* C11 witness: a secret is configured and a request without header, with a
\* valid text and level, ended in 401.
C11_Witness ==
  /\ INTERNAL_API_KEY # None
  /\ x_api_key = None
  /\ ~IsBlank(req.text)
  /\ LevelRecognized(req.level)
  /\ Failed(401)
  /\ outcome.detail = <<"Invalid or missing API key">>

\* C12: the messages built for a request are a fixed function of its text
\* and level: the system message is the constant system prompt, and the
\* user message is the instruction of the level, then the text exactly as
\* received (not trimmed, no case changed), then the closing instruction;
\* nothing else of the state enters them.
C12_PromptFromTextAndLevel ==
  messages # None =>
    /\ Len(messages[1]) = 2
    /\ messages[1][1] = [role |-> "system", content |-> <<system_prompt>>]
    /\ messages[1][2].role = "user"
    /\ Len(messages[1][2].content) = 6
    /\ messages[1][2].content[1] = level_instructions(LevelSpelled(req.level))
    /\ messages[1][2].content[2] = "\n\n"
    /\ messages[1][2].content[3] = "Text:\n"
    /\ messages[1][2].content[4] = body.text
    /\ messages[1][2].content[5] = "\n\n"
    /\ messages[1][2].content[6] = "Return EXACTLY using the structure provided."

\* C12 witness: the call is pending for the text " Ab " and the level
\* "Advanced": the user message holds " Ab " after the advanced instruction.
C12_Witness ==
  /\ pc = "call"
  /\ body.level = Some(<<"A", "d", "v", "a", "n", "c", "e", "d">>)
  /\ messages[1][2].content[1] = level_instructions(advanced)
  /\ messages[1][2].content[4] = <<" ", "A", "b", " ">>

\* C19: the checks are made in the order key, text, level: a request whose
\* key is rejected ends in 401 whatever its text and level, and a request
\* whose key is accepted and whose text is blank ends in the empty-text 400
\* whatever its level.
C19_FailurePrecedence ==
  /\ (pc # "idle" /\ KeyRejected) =>
       Failed(401) /\ outcome.detail = <<"Invalid or missing API key">>
  /\ (pc # "idle" /\ ~KeyRejected /\ IsBlank(req.text)) =>
       Failed(400) /\ outcome.detail = <<"Text cannot be empty.">>

\* C19 witness: an authorized request with a whitespace-only text and the
\* level "expert" ended in the empty-text 400.
C19_Witness ==
  /\ ~KeyRejected
  /\ INTERNAL_API_KEY # None
  /\ req.text = <<" ", "\t">>
  /\ ~LevelRecognized(req.level)
  /\ Failed(400)
  /\ outcome.detail = <<"Text cannot be empty.">>

\* The loop is about to read a line.
AtLine == pc = "parse" /\ idx <= Len(lines)

\* The section whose label the trimmed form of line starts with.
LabelledSection(line) ==
  CHOOSE c \in {"summary", "explanation", "keypoints"} :
    HasLabelPrefix(TrimOf(line),
                   CASE c = "summary" -> LABEL_SUMMARY
                     [] c = "explanation" -> LABEL_EXPLANATION
                     [] c = "keypoints" -> LABEL_KEY_POINTS)

\* C13: reading a line whose trimmed form starts, in any letter case, with
\* SUMMARY, EXPLANATION or KEY POINTS puts the parser, from whatever state
\* it was in, in the state of that label and leaves the summary, the
\* explanation and the key points as they were: nothing of the line, the
\* text after the label included, is collected.
C13_LabelLineConsumed ==
  [][(AtLine /\ IsLabelLine(lines[idx])) =>
       /\ current' = Some(LabelledSection(lines[idx]))
       /\ sections' = sections]_vars

\* C13 witness: "Explanation: b" was read as second line in KEYPOINTS state;
\* the parser is in EXPLANATION state and the explanation is still empty.
C13_Witness ==
  /\ pc = "parse"
  /\ Len(read) = 2
  /\ read[2].current = Some("keypoints")
  /\ read[2].line = <<"E", "x", "p", "l", "a", "n", "a", "t", "i", "o", "n",
                      ":", " ", "b">>
  /\ current = Some("explanation")
  /\ sections.explanation = <<>>
  /\ sections.keypoints = <<>>

\* C14: reading a line that is not a label line leaves the parser state as
\* it was and changes at most the accumulator of that state: nothing in
\* NONE state, only the summary in SUMMARY state, only the explanation in
\* EXPLANATION state, only the key points in KEYPOINTS state. So the state
\* changes only on label lines.
C14_StepFrame ==
  [][(AtLine /\ ~IsLabelLine(lines[idx])) =>
       /\ current' = current
       /\ current = None => sections' = sections
       /\ current # Some("summary") => sections'.summary = sections.summary
       /\ current # Some("explanation") =>
            sections'.explanation = sections.explanation
       /\ current # Some("keypoints") =>
            sections'.keypoints = sections.keypoints]_vars

\* C14 witness: the dash line "- a" was read in SUMMARY state: it went to
\* the summary, the state is still SUMMARY and the key points are empty.
C14_Witness ==
  /\ pc = "parse"
  /\ Len(read) = 2
  /\ read[2].current = Some("summary")
  /\ read[2].line = <<"-", " ", "a">>
  /\ current = Some("summary")
  /\ sections.summary = <<"-", " ", "a", " ">>
  /\ sections.explanation = <<>>
  /\ sections.keypoints = <<>>

\* The accumulator that the entries leave: each trimmed line followed by
\* one space, in the order read.
Collected(entries) ==
  Join([i \in 1..Len(entries) |-> TrimOf(entries[i].line) \o <<" ">>], <<>>)

\* C15: a section is selected by its label wherever the label occurs and
\* whatever came before; entering a section again keeps what it had
\* collected. During the pass each accumulator is what the content lines
\* read in its state, over all visits, have put there in the order read,
\* and the response's summary and explanation are that concatenation.
C15_VisitsConcatenated ==
  /\ \A i \in 1..Len(read) :
       IsLabelLine(read[i].line) =>
         StateAfter(i) = Some(LabelledSection(read[i].line))
  /\ pc = "parse" =>
       /\ sections.summary = Collected(SelectSeq(read, IsContentOfSummary))
       /\ sections.explanation =
            Collected(SelectSeq(read, IsContentOfExplanation))
       /\ Len(sections.keypoints) = Len(SelectSeq(read, IsDashLineOfKeypoints))
       /\ \A k \in 1..Len(sections.keypoints) :
            IsDashEntryOf(sections.keypoints[k],
                          SelectSeq(read, IsDashLineOfKeypoints)[k].line)
  /\ (Responded /\ SelectSeq(read, IsContentOfSummary) # <<>>) =>
       outcome.summary \o <<" ">> =
         Collected(SelectSeq(read, IsContentOfSummary))
  /\ (Responded /\ SelectSeq(read, IsContentOfExplanation) # <<>>) =>
       outcome.explanation \o <<" ">> =
         Collected(SelectSeq(read, IsContentOfExplanation))

\* C15 witness: the summary label occurred as first and as third line, with
\* " SUM" after the first and "MARY" after the second: the summary returned
\* is "SUM MARY".
C15_Witness ==
  /\ Responded
  /\ Len(read) = 4
  /\ IsLabelLine(read[1].line) /\ read[2].current = Some("summary")
  /\ IsContentOfSummary(read[2])
  /\ IsLabelLine(read[3].line) /\ read[4].current = Some("summary")
  /\ IsContentOfSummary(read[4])
  /\ outcome.summary = <<"S", "U", "M", " ", "M", "A", "R", "Y">>

\* C16: each field of the response has its fallback exactly when its own
\* section collected nothing, and is what was parsed otherwise, whatever the
\* other sections hold: with no summary content the summary is "Summary
\* unavailable." also when there is an explanation.
C16_FallbackPerField ==
  Responded =>
    /\ outcome.summary =
         IF SelectSeq(read, IsContentOfSummary) = <<>>
         THEN SUMMARY_UNAVAILABLE
         ELSE JoinedBySpaces(SelectSeq(read, IsContentOfSummary))
    /\ outcome.explanation =
         IF SelectSeq(read, IsContentOfExplanation) = <<>>
         THEN EXPLANATION_UNAVAILABLE
         ELSE JoinedBySpaces(SelectSeq(read, IsContentOfExplanation))
    /\ IF SelectSeq(read, IsDashLineOfKeypoints) = <<>>
       THEN outcome.key_points = <<NO_KEY_POINTS>>
       ELSE /\ Len(outcome.key_points) =
                 Len(SelectSeq(read, IsDashLineOfKeypoints))
            /\ \A k \in 1..Len(outcome.key_points) :
                 IsDashEntryOf(outcome.key_points[k],
                               SelectSeq(read, IsDashLineOfKeypoints)[k].line)
    /\ outcome.summary = SUMMARY_UNAVAILABLE <=>
         SelectSeq(read, IsContentOfSummary) = <<>>
    /\ outcome.explanation = EXPLANATION_UNAVAILABLE <=>
         SelectSeq(read, IsContentOfExplanation) = <<>>
    /\ outcome.key_points = <<NO_KEY_POINTS>> <=>
         SelectSeq(read, IsDashLineOfKeypoints) = <<>>

\* C16 witness: the explanation and a key point were collected and the
\* summary was not: the response has the summary fallback, the explanation
\* "MARY" and the key point "a".
C16_Witness ==
  /\ Responded
  /\ SelectSeq(read, IsContentOfSummary) = <<>>
  /\ outcome.summary = SUMMARY_UNAVAILABLE
  /\ outcome.explanation = <<"M", "A", "R", "Y">>
  /\ outcome.key_points = << <<"a">> >>

\* The text of the completion received.
Raw == ContentOf(completion[1])

\* s with "\n" in place of every terminator "\r\n" and "\r".
RECURSIVE UniversalNewlines(_)
UniversalNewlines(s) ==
  IF s = <<>> THEN <<>>
  ELSE IF s[1] = "\r"
       THEN IF Len(s) >= 2 /\ s[2] = "\n"
            THEN <<"\n">> \o UniversalNewlines(SubSeq(s, 3, Len(s)))
            ELSE <<"\n">> \o UniversalNewlines(Tail(s))
       ELSE <<s[1]>> \o UniversalNewlines(Tail(s))

\* C17: the response for a completion text is the response for the same
\* lines ended by "\n", whether the text ends them with "\n", with "\r\n"
\* or with a lone "\r".
C17_AnyTerminator ==
  (Responded /\ GotChoice) => outcome = Parse(level, UniversalNewlines(Raw))

\* C20: a request that is over has exactly one outcome, and it is the 401,
\* a 400, the upstream-failure 500 or a response; the loop reads each line
\* once and stops after the last; a response comes after exactly one
\* completed call of the completion service.
C20_OneOfFourOutcomes ==
  /\ pc = "done" =>
       \/ Failed(401)
       \/ Failed(400)
       \/ Failed(500)
       \/ Responded
  /\ pc = "parse" => (idx \in 1..(Len(lines) + 1) /\ Len(read) = idx - 1)
  /\ Responded => (calls = 1 /\ completion # None /\ Len(read) = Len(lines))

\* C18: whatever the other worker does meanwhile, a call of explain that is
\* over has the outcome that its own text, level and header and the answer
\* its own completion call got give when handled alone.
C18_RequestsIndependent ==
  \A w \in Workers :
    frames[w].pc = "done" =>
      frames[w].outcome =
        HandledAlone(INTERNAL_API_KEY, frames[w].body.text,
                     frames[w].body.level, frames[w].x_api_key,
                     frames[w].exc, frames[w].completion)

\* C18 witness: worker w1 returned the summary "SUM" for the level beginner
\* while worker w2, at level intermediate, is in the middle of its loop with
\* "MARY" collected in its explanation.
C18_Witness ==
  /\ frames["w1"].pc = "done"
  /\ frames["w1"].outcome.kind = "ExplainResponse"
  /\ frames["w1"].outcome.level = beginner
  /\ frames["w1"].outcome.summary = <<"S", "U", "M">>
  /\ frames["w2"].pc = "parse"
  /\ frames["w2"].level = intermediate
  /\ frames["w2"].idx = 3
  /\ frames["w2"].sections.explanation = <<"M", "A", "R", "Y", " ">>

=============================================================================
